---- MODULE Spec2Model ----
(***************************************************************************)
(* Model of src/app.py, the Streamlit "Shipment Leg Enrichment" script.    *)
(* One run of the script is a behaviour: load ports.csv, draw the port map,*)
(* read and clean the uploaded shipment sheet, and, when the button is     *)
(* pressed, resolve the nearest port of both endpoints of every shipment   *)
(* and expand it into three legs.                                          *)
(*                                                                         *)
(* Abstractions.  A location is a pair <<Latitude, Longitude>> of small    *)
(* naturals.  geopy's geodesic(a, b).km is an external library; it is      *)
(* modelled as a metric on that grid (see geodesic).  A cell that          *)
(* pd.to_numeric cannot convert is BadCell, and the float NaN it becomes   *)
(* is NaN.                                                                 *)
(***************************************************************************)
EXTENDS Integers, Sequences, FiniteSets, TLC

\* ---- bounds of the model ------------------------------------------------
MaxPorts == 2
MaxShipments == 2
MaxLat == 1
MaxRadius == 2
MaxCalls == 3

\* ---- values -------------------------------------------------------------
\* NaN is what errors='coerce' leaves for a cell that is no number (BadCell)
NaN == -1
BadCell == -2
None == "None"
NaNText == "NaN"
\* the unit of the model's distance: one degree of the grid is 2 km, so that a
\* radius of min_value (1 km) excludes the neighbouring grid point
KmPerDegree == 2
\* line 37: the smallest radius the number input accepts
min_value == 1

Abs(x) == IF x < 0 THEN -x ELSE x

\* geodesic(location_coords, (row['Latitude'], row['Longitude'])).km
geodesic(a, b) == KmPerDegree * (Abs(a[1] - b[1]) + Abs(a[2] - b[2]))

\* pd.to_numeric(cell, errors='coerce')
to_numeric(cell) == IF cell >= 0 THEN cell ELSE NaN

isna(x) == x = NaN

\* ---- the inputs: files the script is run on -----------------------------
Points == {<<lat, 0>> : lat \in 0 .. MaxLat}

\* the coordinate cells of a port row; of an origin; of a destination.  Each
\* has one kind of cell that is no number.
RawPortCoords == Points \cup {<<BadCell, 0>>}
RawOrigins == Points \cup {<<BadCell, 0>>}
RawDestinations == Points \cup {<<0, BadCell>>}

PortNames == <<"PortA", "PortB", "PortC", "PortD">>

RawPortRow(k, c) ==
  [Index |-> k, PortName |-> PortNames[k], Latitude |-> c[1], Longitude |-> c[2]]

\* every ports.csv of at most MaxPorts rows
PortFiles ==
  UNION {{[k \in 1 .. n |-> RawPortRow(k, cs[k])] : cs \in [1 .. n -> RawPortCoords]}
          : n \in 0 .. MaxPorts}

\* the columns of the sheet that the script only copies: sample values, the
\* second of which has an empty Vehicle Type cell
SampleIDs == <<"S1", "S2">>
SampleCustomers == <<"Acme", "Bolt">>
SampleVehicles == <<"Truck", NaNText>>
SampleDates == <<"2024-01-01", "2024-02-02">>

RawShipmentRow(k, o, d) ==
  [Index |-> k,
   ConsignmentID |-> SampleIDs[((k - 1) % 2) + 1],
   Origin |-> "X",
   OriginLatitude |-> o[1], OriginLongitude |-> o[2],
   Destination |-> "Y",
   DestinationLatitude |-> d[1], DestinationLongitude |-> d[2],
   LoadTons |-> 4 + k,
   CustomerName |-> SampleCustomers[((k - 1) % 2) + 1],
   VehicleType |-> SampleVehicles[((k - 1) % 2) + 1],
   Date |-> SampleDates[((k - 1) % 2) + 1]]

\* every sheet of at most MaxShipments rows
ShipmentSheets ==
  UNION {{[k \in 1 .. n |-> RawShipmentRow(k, os[k], ds[k])]
           : os \in [1 .. n -> RawOrigins], ds \in [1 .. n -> RawDestinations]}
          : n \in 0 .. MaxShipments}

VARIABLES
  ports_csv,          \* [exists, rows]: the file ports.csv
  radius_km,          \* the sidebar number input
  shipment_file,      \* [uploaded, columns_ok, rows]: the uploaded sheet
  ports_df,           \* [isNone, rows]: load_ports_data()'s result
  shipments_df,       \* the cleaned shipment rows
  enriched_shipments, \* the list of legs
  output,             \* [shown, table]: st.dataframe(enriched_shipments_df)
  messages,           \* st.error / st.warning / st.info / st.success calls
  pc,                 \* position of the script
  i,                  \* position of the shipment loop in shipments_df
  calls,              \* history: the select_nearest_port calls made
  done_rows           \* history: one entry per loop iteration

vars == <<ports_csv, radius_km, shipment_file, ports_df, shipments_df,
          enriched_shipments, output, messages, pc, i, calls, done_rows>>

\* ---- load_ports_data ------------------------------------------------------
NoDistance == [present |-> FALSE, km |-> 0]
Km(d) == [present |-> TRUE, km |-> d]

\* lines 58-60: coerce both coordinate columns, drop the rows left with a NaN
CleanPorts(rows) ==
  LET coerced == [k \in 1 .. Len(rows) |->
                    [Index |-> rows[k].Index,
                     PortName |-> rows[k].PortName,
                     Latitude |-> to_numeric(rows[k].Latitude),
                     Longitude |-> to_numeric(rows[k].Longitude),
                     Distance |-> NoDistance]]
  IN SelectSeq(coerced, LAMBDA r : ~isna(r.Latitude) /\ ~isna(r.Longitude))

load_ports_data(file) ==
  IF file.exists THEN [isNone |-> FALSE, rows |-> CleanPorts(file.rows)]
                 ELSE [isNone |-> TRUE, rows |-> <<>>]

\* ---- cleaning of the shipment sheet, lines 109-113 ----------------------
CleanShipments(rows) ==
  LET coerced == [k \in 1 .. Len(rows) |->
                    [rows[k] EXCEPT
                       !.OriginLatitude = to_numeric(@),
                       !.OriginLongitude = to_numeric(@),
                       !.DestinationLatitude = to_numeric(@),
                       !.DestinationLongitude = to_numeric(@)]]
  IN SelectSeq(coerced, LAMBDA r : /\ ~isna(r.OriginLatitude)
                                   /\ ~isna(r.OriginLongitude)
                                   /\ ~isna(r.DestinationLatitude)
                                   /\ ~isna(r.DestinationLongitude))

\* ---- select_nearest_port, lines 122-134 ---------------------------------
NoPort ==
  [Index |-> 0, PortName |-> None, Latitude |-> NaN, Longitude |-> NaN,
   Distance |-> NoDistance]

\* lines 124-127: ports_df['Distance'] = ports_df.apply(...)
WithDistance(rows, location_coords) ==
  [k \in 1 .. Len(rows) |->
     [rows[k] EXCEPT
        !.Distance = Km(geodesic(location_coords,
                                 <<rows[k].Latitude, rows[k].Longitude>>))]]

\* a variant of NearbyPorts: the radius taken as exclusive
NearbyPortsStrict(rows, radius) ==
  SelectSeq(rows, LAMBDA r : r.Distance.km < radius)

\* line 129: ports_df[ports_df['Distance'] <= radius_km].copy()
NearbyPorts(rows, radius) ==
  SelectSeq(rows, LAMBDA r : r.Distance.km <= radius)

\* line 133: Series.idxmin scans the column and keeps the first minimum;
\* it answers the row label.
RECURSIVE ArgMinFrom(_, _, _)
ArgMinFrom(rows, k, best) ==
  IF k > Len(rows) THEN best
  ELSE ArgMinFrom(rows, k + 1,
                  IF rows[k].Distance.km < rows[best].Distance.km THEN k ELSE best)

\* a variant of idxmin: the scan keeps the last minimum
RECURSIVE ArgMinLastFrom(_, _, _)
ArgMinLastFrom(rows, k, best) ==
  IF k > Len(rows) THEN best
  ELSE ArgMinLastFrom(rows, k + 1,
                      IF rows[k].Distance.km <= rows[best].Distance.km THEN k ELSE best)

idxminLast(rows) == rows[ArgMinLastFrom(rows, 2, 1)].Index

\* a variant of idxmin: the first row in the radius, whatever its distance
idxminFirstRow(rows) == rows[1].Index

idxmin(rows) == rows[ArgMinFrom(rows, 2, 1)].Index

\* line 133: nearby_ports.loc[label]
loc(rows, label) == rows[CHOOSE k \in 1 .. Len(rows) : rows[k].Index = label]

\* the whole function: the frame it leaves in ports_df and what it returns
select_nearest_port(rows, location_coords, radius) ==
  LET df == WithDistance(rows, location_coords)
      nearby_ports == NearbyPorts(df, radius)
  IN [ports |-> df,
      port |-> IF nearby_ports = <<>> THEN NoPort
               ELSE loc(nearby_ports, idxmin(nearby_ports))]

\* ---- the legs of one shipment, lines 156-202 ----------------------------
LegsOf(shipment, origin_port, destination_port) ==
  << [ID |-> shipment.ConsignmentID,
      Sequence |-> 1,
      Origin |-> shipment.Origin,
      Destination |-> origin_port.PortName,
      OriginLatitude |-> shipment.OriginLatitude,
      OriginLongitude |-> shipment.OriginLongitude,
      DestinationLatitude |-> origin_port.Latitude,
      DestinationLongitude |-> origin_port.Longitude,
      LoadTons |-> shipment.LoadTons,
      Mode |-> "ROAD",
      VehicleType |-> shipment.VehicleType,
      CustomerName |-> shipment.CustomerName,
      Date |-> shipment.Date],
     [ID |-> shipment.ConsignmentID,
      Sequence |-> 2,
      Origin |-> origin_port.PortName,
      Destination |-> destination_port.PortName,
      OriginLatitude |-> origin_port.Latitude,
      OriginLongitude |-> origin_port.Longitude,
      DestinationLatitude |-> destination_port.Latitude,
      DestinationLongitude |-> destination_port.Longitude,
      LoadTons |-> shipment.LoadTons,
      Mode |-> "SEA",
      VehicleType |-> None,
      CustomerName |-> shipment.CustomerName,
      Date |-> shipment.Date],
     [ID |-> shipment.ConsignmentID,
      Sequence |-> 3,
      Origin |-> destination_port.PortName,
      Destination |-> shipment.Destination,
      OriginLatitude |-> destination_port.Latitude,
      OriginLongitude |-> destination_port.Longitude,
      DestinationLatitude |-> shipment.DestinationLatitude,
      DestinationLongitude |-> shipment.DestinationLongitude,
      LoadTons |-> shipment.LoadTons,
      Mode |-> "ROAD",
      VehicleType |-> shipment.VehicleType,
      CustomerName |-> shipment.CustomerName,
      Date |-> shipment.Date] >>

\* a variant of Skip: the shipment is skipped only when both ports are None
SkipWhenBothNone(origin_port, destination_port) ==
  origin_port = NoPort /\ destination_port = NoPort

\* a variant of Legs: the sea leg does not carry the customer and the date
LegsSeaBare(shipment, origin_port, destination_port) ==
  LET legs == LegsOf(shipment, origin_port, destination_port)
  IN [legs EXCEPT ![2] = [@ EXCEPT !.CustomerName = None, !.Date = None]]

\* a variant of Legs: the last leg leaves from the origin port
LegsLastFromOriginPort(shipment, origin_port, destination_port) ==
  LET legs == LegsOf(shipment, origin_port, destination_port)
  IN [legs EXCEPT ![3] = [@ EXCEPT !.Origin = origin_port.PortName,
                                   !.OriginLatitude = origin_port.Latitude,
                                   !.OriginLongitude = origin_port.Longitude]]

Legs(shipment, origin_port, destination_port) ==
  LegsOf(shipment, origin_port, destination_port)

\* line 151: origin_port is None or destination_port is None
Skip(origin_port, destination_port) ==
  origin_port = NoPort \/ destination_port = NoPort

\* a variant of extend: the legs are put in front of the list
extendFront(list, legs) == legs \o list

\* line 203: enriched_shipments.extend(legs)
extend(list, legs) == list \o legs

\* ---- the script ----------------------------------------------------------
Msg(kind, about) == [kind |-> kind, about |-> about]

PortCsvs ==
  {[exists |-> FALSE, rows |-> <<>>]} \cup {[exists |-> TRUE, rows |-> f] : f \in PortFiles}

Uploads ==
  {[uploaded |-> FALSE, columns_ok |-> FALSE, rows |-> <<>>],
   [uploaded |-> TRUE, columns_ok |-> FALSE, rows |-> <<>>]}
  \cup {[uploaded |-> TRUE, columns_ok |-> TRUE, rows |-> f] : f \in ShipmentSheets}

\* The start of a script run, on any ports.csv and any upload of the bounds.
\* The radius is the smallest the input accepts, at which a port matches a
\* point only when it lies on it; the other radii are covered by SpecResolve.
Init ==
  /\ ports_csv \in PortCsvs
  /\ radius_km = min_value
  /\ shipment_file \in Uploads
  /\ ports_df = [isNone |-> TRUE, rows |-> <<>>]
  /\ shipments_df = <<>>
  /\ enriched_shipments = <<>>
  /\ output = [shown |-> FALSE, table |-> <<>>]
  /\ messages = <<>>
  /\ pc = "load_ports"
  /\ i = 1
  /\ calls = <<>>
  /\ done_rows = <<>>

\* lines 51-66: ports_df = load_ports_data()
LoadPortsData ==
  /\ pc = "load_ports"
  /\ ports_df' = load_ports_data(ports_csv)
  /\ messages' = IF ports_csv.exists THEN messages
                 ELSE Append(messages, Msg("error", "ports.csv not found"))
  /\ pc' = "ports_loaded"
  /\ UNCHANGED <<ports_csv, radius_km, shipment_file, shipments_df,
                 enriched_shipments, output, i, calls, done_rows>>

\* lines 68, 295-296: ports_df is None
PortsUnavailable ==
  /\ pc = "ports_loaded"
  /\ ports_df.isNone
  /\ messages' = Append(messages, Msg("error", "port data could not be loaded"))
  /\ pc' = "done"
  /\ UNCHANGED <<ports_csv, radius_km, shipment_file, ports_df, shipments_df,
                 enriched_shipments, output, i, calls, done_rows>>

\* lines 68-91: the port map of a sample of the ports
CreatePortMap ==
  /\ pc = "ports_loaded"
  /\ ~ports_df.isNone
  /\ pc' = "shipment_file"
  /\ UNCHANGED <<ports_csv, radius_km, shipment_file, ports_df, shipments_df,
                 enriched_shipments, output, messages, i, calls, done_rows>>

\* lines 73-77 on a frame without rows: the mean of no latitudes is NaN, and
\* folium.Map either accepts the location or raises ValueError, which nothing
\* catches here: the script run ends with the exception on the page.
PortMapRaises ==
  /\ pc = "ports_loaded"
  /\ ~ports_df.isNone
  /\ ports_df.rows = <<>>
  /\ messages' = Append(messages, Msg("exception", "create_port_map"))
  /\ pc' = "done"
  /\ UNCHANGED <<ports_csv, radius_km, shipment_file, ports_df, shipments_df,
                 enriched_shipments, output, i, calls, done_rows>>

\* lines 94, 293-294: no file uploaded
NoShipmentFile ==
  /\ pc = "shipment_file"
  /\ ~shipment_file.uploaded
  /\ messages' = Append(messages, Msg("info", "please upload a shipment file"))
  /\ pc' = "done"
  /\ UNCHANGED <<ports_csv, radius_km, shipment_file, ports_df, shipments_df,
                 enriched_shipments, output, i, calls, done_rows>>

\* lines 97-106: a required column is missing
MissingColumns ==
  /\ pc = "shipment_file"
  /\ shipment_file.uploaded
  /\ ~shipment_file.columns_ok
  /\ messages' = Append(messages, Msg("error", "required columns are missing"))
  /\ pc' = "done"
  /\ UNCHANGED <<ports_csv, radius_km, shipment_file, ports_df, shipments_df,
                 enriched_shipments, output, i, calls, done_rows>>

\* lines 97-116: read the sheet, coerce the coordinates, drop the invalid rows
ReadShipments ==
  /\ pc = "shipment_file"
  /\ shipment_file.uploaded
  /\ shipment_file.columns_ok
  /\ shipments_df' = CleanShipments(shipment_file.rows)
  /\ IF shipments_df' = <<>>
       THEN /\ messages' = Append(messages, Msg("warning", "no valid shipment data"))
            /\ pc' = "done"
       ELSE /\ messages' = messages
            /\ pc' = "button"
  /\ UNCHANGED <<ports_csv, radius_km, shipment_file, ports_df,
                 enriched_shipments, output, i, calls, done_rows>>

\* line 118: st.button is False, the run ends here
ButtonIdle ==
  /\ pc = "button"
  /\ pc' = "done"
  /\ UNCHANGED <<ports_csv, radius_km, shipment_file, ports_df, shipments_df,
                 enriched_shipments, output, messages, i, calls, done_rows>>

\* lines 118-120: st.button is True
ButtonPressed ==
  /\ pc = "button"
  /\ enriched_shipments' = <<>>
  /\ i' = 1
  /\ pc' = "loop"
  /\ UNCHANGED <<ports_csv, radius_km, shipment_file, ports_df, shipments_df,
                 output, messages, calls, done_rows>>

\* lines 136-203: one iteration of the shipment loop
ProcessShipment ==
  /\ pc = "loop"
  /\ i <= Len(shipments_df)
  /\ LET shipment == shipments_df[i]
         origin_coords == <<shipment.OriginLatitude, shipment.OriginLongitude>>
         destination_coords ==
           <<shipment.DestinationLatitude, shipment.DestinationLongitude>>
         first == select_nearest_port(ports_df.rows, origin_coords, radius_km)
         second == select_nearest_port(first.ports, destination_coords, radius_km)
         origin_port == first.port
         destination_port == second.port
         skipped == Skip(origin_port, destination_port)
     IN /\ ports_df' = [ports_df EXCEPT !.rows = second.ports]
        /\ calls' = calls \o <<[location |-> origin_coords, port |-> origin_port],
                               [location |-> destination_coords,
                                port |-> destination_port]>>
        /\ IF skipped
             THEN /\ messages' = Append(messages,
                                        Msg("warning", shipment.ConsignmentID))
                  /\ enriched_shipments' = enriched_shipments
             ELSE /\ messages' = messages
                  /\ enriched_shipments' =
                       extend(enriched_shipments,
                              Legs(shipment, origin_port, destination_port))
        /\ done_rows' = Append(done_rows,
                               [shipment |-> shipment,
                                origin_port |-> origin_port,
                                destination_port |-> destination_port,
                                first_leg |-> Len(enriched_shipments) + 1,
                                legs |-> Len(enriched_shipments') - Len(enriched_shipments),
                                warnings |-> Len(messages') - Len(messages)])
  /\ i' = i + 1
  /\ pc' = "loop"
  /\ UNCHANGED <<ports_csv, radius_km, shipment_file, shipments_df, output>>

\* lines 124-127 and 291-292 on a frame without rows: apply answers an empty
\* frame, and assigning it to the column either leaves an empty column (the
\* call then returns None, ProcessShipment) or raises ValueError, which the
\* handler of line 291 reports; the run ends.
SelectRaises ==
  /\ pc = "loop"
  /\ i <= Len(shipments_df)
  /\ ports_df.rows = <<>>
  /\ calls' = Append(calls,
                     [location |-> <<shipments_df[i].OriginLatitude,
                                     shipments_df[i].OriginLongitude>>,
                      port |-> NoPort])
  /\ messages' = Append(messages, Msg("error", "an error occurred"))
  /\ pc' = "done"
  /\ UNCHANGED <<ports_csv, radius_km, shipment_file, ports_df, shipments_df,
                 enriched_shipments, output, i, done_rows>>

\* lines 205-290: after the loop
ShowResults ==
  /\ pc = "loop"
  /\ i > Len(shipments_df)
  /\ IF enriched_shipments # <<>>
       THEN /\ output' = [shown |-> TRUE, table |-> enriched_shipments]
            /\ messages' = Append(messages, Msg("success", "shipments processed"))
       ELSE /\ output' = output
            /\ messages' = Append(messages, Msg("warning", "no shipments were processed"))
  /\ pc' = "done"
  /\ UNCHANGED <<ports_csv, radius_km, shipment_file, ports_df, shipments_df,
                 enriched_shipments, i, calls, done_rows>>

Next ==
  \/ LoadPortsData
  \/ PortsUnavailable
  \/ CreatePortMap
  \/ PortMapRaises
  \/ NoShipmentFile
  \/ MissingColumns
  \/ ReadShipments
  \/ ButtonIdle
  \/ ButtonPressed
  \/ ProcessShipment
  \/ SelectRaises
  \/ ShowResults

Spec == Init /\ [][Next]_vars


\* ---- select_nearest_port on its own ---------------------------------------
\* The function applied, up to MaxCalls times in a row, to any point, on any
\* loaded catalog and under any radius; the frame keeps the Distance column of
\* the call before, as it does between the two calls of a loop iteration.
InitResolve ==
  /\ ports_csv \in {f \in PortCsvs : f.exists}
  /\ radius_km \in min_value .. MaxRadius
  /\ shipment_file = [uploaded |-> FALSE, columns_ok |-> FALSE, rows |-> <<>>]
  /\ ports_df = load_ports_data(ports_csv)
  /\ shipments_df = <<>>
  /\ enriched_shipments = <<>>
  /\ output = [shown |-> FALSE, table |-> <<>>]
  /\ messages = <<>>
  /\ pc = "resolve"
  /\ i = 1
  /\ calls = <<>>
  /\ done_rows = <<>>

Resolve ==
  /\ pc = "resolve"
  /\ Len(calls) < MaxCalls
  /\ \E location_coords \in Points :
       LET r == select_nearest_port(ports_df.rows, location_coords, radius_km)
       IN /\ ports_df' = [ports_df EXCEPT !.rows = r.ports]
          /\ calls' = Append(calls, [location |-> location_coords, port |-> r.port])
  /\ UNCHANGED <<ports_csv, radius_km, shipment_file, shipments_df,
                 enriched_shipments, output, messages, pc, i, done_rows>>

\* line 124 on a frame without rows, when the assignment raises
ResolveRaises ==
  /\ pc = "resolve"
  /\ Len(calls) < MaxCalls
  /\ ports_df.rows = <<>>
  /\ pc' = "raised"
  /\ UNCHANGED <<ports_csv, radius_km, shipment_file, ports_df, shipments_df,
                 enriched_shipments, output, messages, i, calls, done_rows>>

NextResolve == Resolve \/ ResolveRaises

SpecResolve == InitResolve /\ [][NextResolve]_vars

\* ---- properties of select_nearest_port ----------------------------------
\* the facilities of the catalog, as loaded (no Distance column yet)
Catalog == CleanPorts(ports_csv.rows)

Dist(location, row) == geodesic(location, <<row.Latitude, row.Longitude>>)

InRadius(location) ==
  {k \in 1 .. Len(Catalog) : Dist(location, Catalog[k]) <= radius_km}

IsFacility(port, row) ==
  /\ port.Index = row.Index
  /\ port.PortName = row.PortName
  /\ port.Latitude = row.Latitude
  /\ port.Longitude = row.Longitude

\* C1: whenever some facility of the catalog is within the radius of the
\* point, the call returns a facility of the catalog that is within the radius
\* and no facility of the catalog is strictly nearer to the point.
C1_NearestWithinRadius ==
  \A n \in 1 .. Len(calls) :
    LET c == calls[n]
    IN InRadius(c.location) # {} =>
         \E k \in 1 .. Len(Catalog) :
           /\ IsFacility(c.port, Catalog[k])
           /\ Dist(c.location, Catalog[k]) <= radius_km
           /\ \A j \in 1 .. Len(Catalog) :
                Dist(c.location, Catalog[j]) >= Dist(c.location, Catalog[k])

\* a call that returned a facility nearer than an earlier facility of the
\* catalog which is within the radius too
C1_Witness ==
  \E n \in 1 .. Len(calls) :
    \E k, j \in 1 .. Len(Catalog) :
      /\ IsFacility(calls[n].port, Catalog[k])
      /\ j < k
      /\ j \in InRadius(calls[n].location)
      /\ Dist(calls[n].location, Catalog[j]) > Dist(calls[n].location, Catalog[k])

\* C2: the call returns None exactly when no facility of the catalog is at a
\* distance <= radius; a facility at a distance equal to the radius, the only
\* one in range, is returned.
C2_NoMatchIffNoneInRadius ==
  \A n \in 1 .. Len(calls) :
    LET c == calls[n]
    IN /\ (c.port = NoPort) <=> (InRadius(c.location) = {})
       /\ \A k \in 1 .. Len(Catalog) :
            (InRadius(c.location) = {k} /\ Dist(c.location, Catalog[k]) = radius_km)
              => IsFacility(c.port, Catalog[k])

\* a call that returned the only facility in range, which is at exactly the
\* radius
C2_Witness ==
  \E n \in 1 .. Len(calls) :
    \E k \in 1 .. Len(Catalog) :
      /\ InRadius(calls[n].location) = {k}
      /\ Dist(calls[n].location, Catalog[k]) = radius_km
      /\ IsFacility(calls[n].port, Catalog[k])

\* the facilities within the radius at the smallest distance from the point
Nearest(location) ==
  {k \in InRadius(location) :
     \A j \in InRadius(location) :
       Dist(location, Catalog[k]) <= Dist(location, Catalog[j])}

\* C3: among the facilities within the radius at the minimum distance the
\* call returns the first of the catalog's order, and two calls with the same
\* point return the same facility.
C3_FirstOnTies ==
  /\ \A n \in 1 .. Len(calls) :
       LET c == calls[n]
       IN c.port # NoPort =>
            \E k \in Nearest(c.location) :
              /\ IsFacility(c.port, Catalog[k])
              /\ \A j \in Nearest(c.location) : k <= j
  /\ \A m, n \in 1 .. Len(calls) :
       calls[m].location = calls[n].location => calls[m].port = calls[n].port

\* two calls with the same point, with a call for another point in between,
\* and two facilities tied at the minimum
C3_Witness ==
  \E m, n \in 1 .. Len(calls) :
    /\ m + 1 < n
    /\ calls[m].location = calls[n].location
    /\ calls[m + 1].location # calls[m].location
    /\ Cardinality(Nearest(calls[n].location)) >= 2

\* ---- properties of the shipment loop ------------------------------------
Matched(d) == d.origin_port # NoPort /\ d.destination_port # NoPort

\* the legs in the list at the place where iteration k put its legs
Itinerary(k) ==
  SubSeq(enriched_shipments, done_rows[k].first_leg, done_rows[k].first_leg + 2)

\* the loop has run to its end and the results were shown
LoopCompleted ==
  /\ pc = "done"
  /\ messages # <<>>
  /\ messages[Len(messages)] \in {Msg("success", "shipments processed"),
                                  Msg("warning", "no shipments were processed")}

\* C4: a shipment whose two endpoints resolve to a port adds exactly 3 legs
\* and no warning; one with an endpoint (or both) unresolved adds no leg and
\* exactly 1 warning, and the loop goes on to the next shipment, so that every
\* shipment of the cleaned sheet is handled, in order.
C4_ThreeLegsOrOneDiagnostic ==
  /\ \A k \in 1 .. Len(done_rows) :
       LET d == done_rows[k]
       IN /\ d.shipment = shipments_df[k]
          /\ Matched(d) => (d.legs = 3 /\ d.warnings = 0)
          /\ ~Matched(d) => (d.legs = 0 /\ d.warnings = 1)
          /\ d.legs \in {0, 3}
  /\ pc = "loop" => Len(done_rows) = i - 1
  /\ LoopCompleted => Len(done_rows) = Len(shipments_df)

\* a completed run in which a shipment with exactly one unresolved endpoint
\* was skipped and the shipment after it got its legs
C4_Witness ==
  /\ LoopCompleted
  /\ \E k \in 1 .. Len(done_rows) - 1 :
       /\ (done_rows[k].origin_port = NoPort) # (done_rows[k].destination_port = NoPort)
       /\ done_rows[k].legs = 0
       /\ done_rows[k + 1].legs = 3

Modes == <<"ROAD", "SEA", "ROAD">>

\* C5: the legs of a shipment are exactly 3, numbered 1,2,3 with modes ROAD,
\* SEA, ROAD in that order, and each carries the shipment's consignment id,
\* load, customer name and date.
C5_ThreeLegsCopyShipment ==
  \A k \in 1 .. Len(done_rows) :
    Matched(done_rows[k]) =>
      /\ done_rows[k].first_leg + 2 <= Len(enriched_shipments)
      /\ \A q \in 1 .. 3 :
           LET leg == Itinerary(k)[q]
               shipment == done_rows[k].shipment
           IN /\ leg.Sequence = q
              /\ leg.Mode = Modes[q]
              /\ leg.ID = shipment.ConsignmentID
              /\ leg.LoadTons = shipment.LoadTons
              /\ leg.CustomerName = shipment.CustomerName
              /\ leg.Date = shipment.Date

\* two shipments with different values, both expanded
C5_Witness ==
  \E k, l \in 1 .. Len(done_rows) :
    /\ Matched(done_rows[k]) /\ Matched(done_rows[l])
    /\ done_rows[k].shipment.CustomerName # done_rows[l].shipment.CustomerName
    /\ Len(enriched_shipments) = 6

Populated(v) == v \notin {None, NaNText}

\* the endpoints of the three legs chain through the two ports
Chained(k) ==
  LET legs == Itinerary(k)
      shipment == done_rows[k].shipment
      o == done_rows[k].origin_port
      d == done_rows[k].destination_port
  IN /\ legs[1].Origin = shipment.Origin
     /\ legs[1].OriginLatitude = shipment.OriginLatitude
     /\ legs[1].OriginLongitude = shipment.OriginLongitude
     /\ legs[1].Destination = o.PortName
     /\ legs[1].DestinationLatitude = o.Latitude
     /\ legs[1].DestinationLongitude = o.Longitude
     /\ legs[2].Origin = o.PortName
     /\ legs[2].OriginLatitude = o.Latitude
     /\ legs[2].OriginLongitude = o.Longitude
     /\ legs[2].Destination = d.PortName
     /\ legs[2].DestinationLatitude = d.Latitude
     /\ legs[2].DestinationLongitude = d.Longitude
     /\ legs[3].Origin = d.PortName
     /\ legs[3].OriginLatitude = d.Latitude
     /\ legs[3].OriginLongitude = d.Longitude
     /\ legs[3].Destination = shipment.Destination
     /\ legs[3].DestinationLatitude = shipment.DestinationLatitude
     /\ legs[3].DestinationLongitude = shipment.DestinationLongitude

\* C6 as stated: the legs chain through the two ports, legs 1 and 3 carry a
\* populated vehicle type equal to the shipment's, leg 2 carries none.
C6_ChainPopulatedVehicle ==
  \A k \in 1 .. Len(done_rows) :
    (Matched(done_rows[k]) /\ done_rows[k].first_leg + 2 <= Len(enriched_shipments)) =>
      /\ Chained(k)
      /\ \A q \in {1, 3} :
           /\ Populated(Itinerary(k)[q].VehicleType)
           /\ Itinerary(k)[q].VehicleType = done_rows[k].shipment.VehicleType
      /\ Itinerary(k)[2].VehicleType = None

\* C6 as amended: the legs chain through the two ports, legs 1 and 3 carry the
\* shipment's vehicle type as it is in the sheet (populated exactly when the
\* shipment's cell is), leg 2 carries none.
C6_ChainCopiedVehicle ==
  \A k \in 1 .. Len(done_rows) :
    (Matched(done_rows[k]) /\ done_rows[k].first_leg + 2 <= Len(enriched_shipments)) =>
      /\ Chained(k)
      /\ \A q \in {1, 3} :
           /\ Itinerary(k)[q].VehicleType = done_rows[k].shipment.VehicleType
           /\ Populated(Itinerary(k)[q].VehicleType)
                <=> Populated(done_rows[k].shipment.VehicleType)
      /\ Itinerary(k)[2].VehicleType = None

\* an itinerary through two different ports, of a shipment whose vehicle type
\* cell is empty, next to one of a shipment whose cell is filled
C6_Witness ==
  \E k, l \in 1 .. Len(done_rows) :
    /\ Matched(done_rows[k]) /\ Matched(done_rows[l])
    /\ Len(enriched_shipments) = 6
    /\ done_rows[k].origin_port.PortName # done_rows[k].destination_port.PortName
    /\ ~Populated(done_rows[k].shipment.VehicleType)
    /\ Populated(done_rows[l].shipment.VehicleType)

\* C7: at every point of the run the legs of the shipments handled so far
\* stand in the list in input order, each shipment's three legs together and
\* in the order 1,2,3, at the place where they were appended; the table shown
\* at the end is that list.
C7_StableLegOrder ==
  /\ \A k \in 1 .. Len(done_rows) :
       LET d == done_rows[k]
       IN /\ d.first_leg = IF k = 1 THEN 1
                           ELSE done_rows[k - 1].first_leg + done_rows[k - 1].legs
          /\ d.first_leg + d.legs - 1 <= Len(enriched_shipments)
          /\ \A q \in 1 .. d.legs :
               LET leg == enriched_shipments[d.first_leg + q - 1]
               IN /\ leg.Sequence = q
                  /\ leg.ID = d.shipment.ConsignmentID
                  /\ leg.LoadTons = d.shipment.LoadTons
  /\ done_rows # <<>> =>
       Len(enriched_shipments) =
         done_rows[Len(done_rows)].first_leg + done_rows[Len(done_rows)].legs - 1
  /\ output.shown => output.table = enriched_shipments

\* the table shown holds the legs of two shipments
C7_Witness ==
  /\ output.shown
  /\ Len(output.table) = 6
  /\ output.table[1].LoadTons # output.table[4].LoadTons

C9_CatalogUnchanged == [][pc # "load_ports" => ports_df' = ports_df]_vars

InvalidRow(row) ==
  \/ isna(to_numeric(row.OriginLatitude))
  \/ isna(to_numeric(row.OriginLongitude))
  \/ isna(to_numeric(row.DestinationLatitude))
  \/ isna(to_numeric(row.DestinationLongitude))

\* line 115: the one message of the cleaning step
NoValidData == Msg("warning", "no valid shipment data")

Noted(msg) == \E m \in 1 .. Len(messages) : messages[m] = msg

\* the sheet has been read and cleaned
SheetRead ==
  \/ pc \in {"button", "loop"}
  \/ pc = "done" /\ (shipments_df # <<>> \/ Noted(NoValidData))

\* C10: a shipment with a coordinate that is no number is left out before
\* matching (never handled by the loop, no legs), its exclusion is noted in a
\* message, and the valid shipments are all handled.
C10_InvalidCoordinateNoted ==
  SheetRead =>
    \A r \in 1 .. Len(shipment_file.rows) :
      LET row == shipment_file.rows[r]
      IN IF InvalidRow(row)
           THEN /\ \A k \in 1 .. Len(shipments_df) : shipments_df[k].Index # row.Index
                /\ \A k \in 1 .. Len(done_rows) : done_rows[k].shipment.Index # row.Index
                /\ Noted(NoValidData)
           ELSE /\ \E k \in 1 .. Len(shipments_df) : shipments_df[k].Index = row.Index
                /\ LoopCompleted =>
                     \E k \in 1 .. Len(done_rows) : done_rows[k].shipment.Index = row.Index

====
